---- MODULE Spec2Model ----
(***************************************************************************)
(* Model of server/app.py: the in-memory loan / loan-payment store, the    *)
(* graph query and mutation resolvers and the REST POST /loan-payments     *)
(* handler.                                                                *)
(*                                                                         *)
(* Representation.                                                         *)
(*   - a calendar date (datetime.date) is a record [y, m, d];              *)
(*   - a text is a tuple of Unicode code points, so that parsing and        *)
(*     formatting are computed character by character;                     *)
(*   - a JSON value of a request body is a record tagged by its type t;    *)
(*   - interest rates are kept in hundredths (5.0 is 500);                 *)
(*   - an optional value is a tuple: << >> is None/null, <<x>> is x.       *)
(***************************************************************************)
EXTENDS Integers, Sequences, FiniteSets, TLC

VARIABLES
    seed,           \* which construction of the two module-level lists the run started from
    loans,          \* app.py:13  the module-level list `loans`
    loan_payments,  \* app.py:44  the module-level list `loan_payments`
    request,        \* the request most recently received
    response,       \* the response most recently sent
    pc,             \* per worker thread: where it stands inside a handler
    pending,        \* per worker thread: the record it has built and not yet appended
    raced           \* history: per collection, whether two inserts have overlapped

vars == <<seed, loans, loan_payments, request, response, pc, pending, raced>>

store == <<loans, loan_payments>>

(***************************************************************************)
(* Bounds of the exploration.                                              *)
(***************************************************************************)
MaxNewLoans == 2
MaxNewPayments == 2

(***************************************************************************)
(* Dates and texts.                                                        *)
(***************************************************************************)
Date(y, m, d) == [y |-> y, m |-> m, d |-> d]

\* A character is its Unicode code point. Code names the code points of the
\* ASCII characters that the handlers' patterns and the sample texts write.
Code(c) ==
    CASE c = "0" -> 48 [] c = "1" -> 49 [] c = "2" -> 50 [] c = "3" -> 51
      [] c = "4" -> 52 [] c = "5" -> 53 [] c = "6" -> 54 [] c = "7" -> 55
      [] c = "8" -> 56 [] c = "9" -> 57
      [] c = " " -> 32 [] c = "+" -> 43 [] c = "-" -> 45 [] c = "/" -> 47
      [] c = "_" -> 95 [] c = "x" -> 120

\* the text written with these ASCII characters
Text(s) == [i \in 1..Len(s) |-> Code(s[i])]

\* The code points of the digit zero of every Unicode decimal-digit run
\* (category Nd, Unicode 14): the nine code points after each are its 1..9.
\* These are the characters \d of a str pattern matches and int() reads.
DecimalZeros ==
    {48, 1632, 1776, 1984, 2406, 2534, 2662, 2790, 2918, 3046,
     3174, 3302, 3430, 3558, 3664, 3792, 3872, 4160, 4240, 6112,
     6160, 6470, 6608, 6784, 6800, 6992, 7088, 7232, 7248, 42528,
     43216, 43264, 43472, 43504, 43600, 44016, 65296, 66720, 68912, 69734,
     69872, 69942, 70096, 70384, 70736, 70864, 71248, 71360, 71472, 71904,
     72016, 72784, 73040, 73120, 92768, 92864, 93008, 120782, 120792, 120802,
     120812, 120822, 123200, 123632, 125264, 130032}

\* \d
IsDigit(c) == \E z \in DecimalZeros : c \in z..(z + 9)

DigitVal(c) == c - (CHOOSE z \in DecimalZeros : c \in z..(z + 9))

RECURSIVE DigitsValue(_)
DigitsValue(s) ==
    IF s = << >> THEN 0
    ELSE 10 * DigitsValue(SubSeq(s, 1, Len(s) - 1)) + DigitVal(s[Len(s)])

\* int() of a run of decimal digits: leading zeros add nothing to the value
DecimalValue(s) ==
    LET significant == {i \in 1..Len(s) : DigitVal(s[i]) # 0}
        first == CHOOSE i \in significant : \A k \in significant : i <= k
    IN  IF significant = {} THEN 0 ELSE DigitsValue(SubSeq(s, first, Len(s)))

AllDigits(s) == \A i \in 1..Len(s) : IsDigit(s[i])

IsLeap(y) == y % 4 = 0 /\ (y % 100 # 0 \/ y % 400 = 0)

DaysInMonth(y, m) ==
    IF m = 2 THEN (IF IsLeap(y) THEN 29 ELSE 28)
    ELSE IF m \in {4, 6, 9, 11} THEN 30 ELSE 31

\* datetime.date(y, m, d) raises ValueError outside these ranges.
ValidDate(y, m, d) ==
    /\ y \in 1..9999
    /\ m \in 1..12
    /\ d \in 1..DaysInMonth(y, m)

\* The month directive %m: 1[0-2] | 0[1-9] | [1-9] (ASCII classes).
MonthText(s) ==
    \/ Len(s) = 2 /\ s[1] = Code("1") /\ s[2] \in Code("0")..Code("2")
    \/ Len(s) = 2 /\ s[1] = Code("0") /\ s[2] \in Code("1")..Code("9")
    \/ Len(s) = 1 /\ s[1] \in Code("1")..Code("9")

\* The day directive %d: 3[01] | [12]\d | 0[1-9] | [1-9] | " "[1-9]; only
\* the \d of the second branch takes any decimal digit.
DayText(s) ==
    \/ Len(s) = 2 /\ s[1] = Code("3") /\ s[2] \in Code("0")..Code("1")
    \/ Len(s) = 2 /\ s[1] \in Code("1")..Code("2") /\ IsDigit(s[2])
    \/ Len(s) = 2 /\ s[1] = Code("0") /\ s[2] \in Code("1")..Code("9")
    \/ Len(s) = 1 /\ s[1] \in Code("1")..Code("9")
    \/ Len(s) = 2 /\ s[1] = Code(" ") /\ s[2] \in Code("1")..Code("9")

DayValue(s) == IF s[1] = Code(" ") THEN DigitVal(s[2]) ELSE DecimalValue(s)

Ok(v) == [exc |-> "none", v |-> <<v>>]

Raise(e) == [exc |-> e, v |-> << >>]

\* datetime.datetime.strptime(text, "%Y-%m-%d").date() on a JSON value:
\* a non-string is a TypeError; a string must match \d\d\d\d-%m-%d in full
\* and name a day of the calendar, else ValueError.
Strptime(j) ==
    IF j.t # "str" THEN Raise("TypeError")
    ELSE LET s == j.str
             \* the position of the second "-": the month is one or two characters
             cut == IF Len(s) >= 7 /\ s[7] = Code("-") THEN 7 ELSE 8
         IN  IF /\ Len(s) > cut
                /\ AllDigits(SubSeq(s, 1, 4))
                /\ s[5] = Code("-")
                /\ s[cut] = Code("-")
                /\ MonthText(SubSeq(s, 6, cut - 1))
                /\ DayText(SubSeq(s, cut + 1, Len(s)))
             THEN LET y == DecimalValue(SubSeq(s, 1, 4))
                      m == DecimalValue(SubSeq(s, 6, cut - 1))
                      d == DayValue(SubSeq(s, cut + 1, Len(s)))
                  IN  IF ValidDate(y, m, d) THEN Ok(Date(y, m, d))
                      ELSE Raise("ValueError")
             ELSE Raise("ValueError")

RECURSIVE ZeroPad(_, _)
\* "%0<width>d" of a natural number.
ZeroPad(n, width) ==
    IF width = 0 THEN << >>
    ELSE Append(ZeroPad(n \div 10, width - 1), Code("0") + (n % 10))

\* datetime.date.isoformat(): "%04d-%02d-%02d".
IsoFormat(date) ==
    ZeroPad(date.y, 4) \o Text(<<"-">>) \o ZeroPad(date.m, 2) \o Text(<<"-">>)
        \o ZeroPad(date.d, 2)

(***************************************************************************)
(* JSON values and int().                                                  *)
(***************************************************************************)
JInt(n) == [t |-> "int", int |-> n]

JBool(b) == [t |-> "bool", bool |-> b]

JStr(s) == [t |-> "str", str |-> s]

\* A finite float sign * (whole + tenths / 10), or one of the JSON literals
\* Infinity, -Infinity and NaN that the JSON decoder accepts.
JFloat(neg, whole, tenths) ==
    [t |-> "float",
     float |-> [neg |-> neg, whole |-> whole, tenths |-> tenths, inf |-> FALSE, nan |-> FALSE]]

JInfinity ==
    [t |-> "float",
     float |-> [neg |-> FALSE, whole |-> 0, tenths |-> 0, inf |-> TRUE, nan |-> FALSE]]

JNaN ==
    [t |-> "float",
     float |-> [neg |-> FALSE, whole |-> 0, tenths |-> 0, inf |-> FALSE, nan |-> TRUE]]

JNull == [t |-> "null"]

\* the white space int() skips around a numeral
IntSpaces ==
    (9..13) \cup {32, 133, 160, 5760} \cup (8192..8202) \cup {8232, 8233, 8239, 8287, 12288}

\* the text without its leading white space
LStrip(s) ==
    LET IsFirst(i) == s[i] \notin IntSpaces /\ \A k \in 1..(i - 1) : s[k] \in IntSpaces
    IN  IF \A i \in 1..Len(s) : s[i] \in IntSpaces THEN << >>
        ELSE SubSeq(s, CHOOSE i \in 1..Len(s) : IsFirst(i), Len(s))

\* the text without its trailing white space
RStrip(s) ==
    LET IsLast(i) == s[i] \notin IntSpaces /\ \A k \in (i + 1)..Len(s) : s[k] \in IntSpaces
    IN  IF \A i \in 1..Len(s) : s[i] \in IntSpaces THEN << >>
        ELSE SubSeq(s, 1, CHOOSE i \in 1..Len(s) : IsLast(i))

\* decimal digits with single underscores between them
IsNumeral(s) ==
    /\ Len(s) > 0
    /\ IsDigit(s[1])
    /\ IsDigit(s[Len(s)])
    /\ \A i \in 1..Len(s) : IsDigit(s[i]) \/ s[i] = Code("_")
    /\ \A i \in 1..(Len(s) - 1) : ~(s[i] = Code("_") /\ s[i + 1] = Code("_"))

\* sys.int_info.default_max_str_digits: int() refuses a decimal string of
\* more digits than this.
default_max_str_digits == 4300

\* the digits of a numeral: its underscores dropped
NumeralDigits(s) == SelectSeq(s, IsDigit)

\* int(value): an int is itself and a bool is 0 or 1; a float is truncated
\* towards zero, an infinite one raises OverflowError and NaN ValueError; a
\* string is white space, an optional sign, a numeral, white space, and is
\* refused with ValueError when the numeral has more digits than the limit
\* (leading zeros count, underscores do not); anything else (None, a list,
\* an object) raises TypeError.
IntCoerce(j) ==
    CASE j.t = "int" -> Ok(j.int)
      [] j.t = "bool" -> Ok(IF j.bool THEN 1 ELSE 0)
      [] j.t = "float" ->
            IF j.float.inf THEN Raise("OverflowError")
            ELSE IF j.float.nan THEN Raise("ValueError")
            ELSE Ok(IF j.float.neg THEN 0 - j.float.whole ELSE j.float.whole)
      [] j.t = "str" ->
            LET s == RStrip(LStrip(j.str))
                signed == Len(s) > 0 /\ s[1] \in {Code("-"), Code("+")}
                body == IF signed THEN SubSeq(s, 2, Len(s)) ELSE s
                digits == NumeralDigits(body)
                value == DecimalValue(digits)
            IN  IF IsNumeral(body) /\ Len(digits) <= default_max_str_digits
                THEN Ok(IF signed /\ s[1] = Code("-") THEN 0 - value ELSE value)
                ELSE Raise("ValueError")
      [] OTHER -> Raise("TypeError")

(***************************************************************************)
(* The two collections as the program constructs them.                     *)
(***************************************************************************)
Loan(id, name, rate, principal, due) ==
    [id |-> id, name |-> name, interest_rate |-> rate, principal |-> principal,
     due_date |-> due]

Payment(id, loan_id, date) == [id |-> id, loan_id |-> loan_id, payment_date |-> date]

\* app.py: the lists as the module builds them on import.
AppLoans ==
    << Loan(1, "Tom's Loan", 500, 10000, Date(2025, 3, 1)),
       Loan(2, "Chris Wailaka", 350, 500000, Date(2025, 3, 1)),
       Loan(3, "NP Mobile Money", 450, 30000, Date(2025, 3, 1)),
       Loan(4, "Esther's Autoparts", 150, 40000, Date(2025, 3, 1)) >>

AppPayments ==
    << Payment(1, 1, Date(2024, 3, 4)),
       Payment(2, 2, Date(2024, 3, 15)),
       Payment(3, 3, Date(2024, 4, 5)) >>

\* test_app.py setUp: the lists are cleared, then refilled with the fixture.
TestLoans ==
    << Loan(1, "Test Loan 1", 500, 10000, Date(2025, 4, 1)),
       Loan(2, "Test Loan 2", 350, 50000, Date(2025, 5, 1)) >>

TestPayments ==
    << Payment(1, 1, Date(2025, 4, 5)),
       Payment(2, 1, Date(2025, 4, 10)) >>

Seeds == {"app", "fixture", "cleared"}

SeedLoans(s) ==
    CASE s = "app" -> AppLoans
      [] s = "fixture" -> TestLoans
      [] OTHER -> << >>

SeedPayments(s) ==
    CASE s = "app" -> AppPayments
      [] s = "fixture" -> TestPayments
      [] OTHER -> << >>

(***************************************************************************)
(* Helpers of the handlers.                                                *)
(***************************************************************************)
None == << >>

\* Variant: the first record's id is taken for the greatest.
MaxIdFirst(recs) == IF recs = << >> THEN 0 ELSE Head(recs).id

RECURSIVE GreatestOf(_)
\* max(ids) of a non-empty list
GreatestOf(ids) ==
    IF Len(ids) = 1 THEN ids[1]
    ELSE LET rest == GreatestOf(Tail(ids))
         IN  IF Head(ids) > rest THEN Head(ids) ELSE rest

\* max([rec.get("id") for rec in recs], default=0): 0 only when the list is empty
MaxId(recs) ==
    IF recs = << >> THEN 0
    ELSE GreatestOf([i \in 1..Len(recs) |-> recs[i].id])

\* Variant: the id is only tested for being non-zero.
LoanExistsTruthy(loan_id) == loan_id # 0

\* any(loan.get("id") == loan_id for loan in loans)
LoanExists(loan_id) == \E i \in 1..Len(loans) : loans[i].id = loan_id

\* attribute access on a graph input object: an omitted optional field reads None
Get(input, f) == IF f \in DOMAIN input THEN input[f] ELSE None

\* an exception or error message: its text and the values formatted into it
Message(text, args) == [text |-> text, args |-> args]

NotFoundText == "Loan with id {} not found"

(***************************************************************************)
(* Relationship resolver and read resolvers.                               *)
(***************************************************************************)
\* Variant: the payment's own id is compared with the loan's id.
resolve_payments_by_id(loan) ==
    LET loan_id == loan.id
        Matches(payment) == payment.id = loan_id
    IN  SelectSeq(loan_payments, Matches)

\* ExistingLoans.resolve_payments
resolve_payments(loan) ==
    LET loan_id == loan.id
        Matches(payment) == payment.loan_id = loan_id
    IN  SelectSeq(loan_payments, Matches)

\* Query.resolve_loans
resolve_loans == loans

\* Variant: the comparison is <= instead of ==.
resolve_loan_at_most(id) ==
    LET hits == {i \in 1..Len(loans) : loans[i].id <= id}
    IN  IF hits = {} THEN None
        ELSE <<loans[CHOOSE i \in hits : \A j \in hits : i <= j]>>

\* Query.resolve_loan: next((loan for loan in loans if loan.get("id") == id), None)
resolve_loan(id) ==
    LET hits == {i \in 1..Len(loans) : loans[i].id = id}
    IN  IF hits = {} THEN None
        ELSE <<loans[CHOOSE i \in hits : \A j \in hits : i <= j]>>

\* Query.resolve_loan_payments
resolve_loan_payments == loan_payments

\* A loan as the graph answers it: its fields and its resolved payments field.
LoanView(loan) == [loan |-> loan, payments |-> resolve_payments(loan)]

GraphData(data) == [status |-> 200, data |-> data, errors |-> << >>]

GraphErrors(errors) == [status |-> 200, data |-> None, errors |-> errors]

Rest(status, body) == [status |-> status, body |-> body]

RestError(status, message) == Rest(status, [error |-> message])

(***************************************************************************)
(* The graph engine's check of an input object against its declaration.    *)
(* The engine is a library: only the declarations are in app.py.           *)
(***************************************************************************)
\* CreateLoanInput: the fields it declares, and those declared required=True
CreateLoanInputFields == {"name", "interest_rate", "principal", "due_date"}

\* Variant: due_date is not declared required.
CreateLoanInputLax == {"name", "interest_rate", "principal"}

CreateLoanInput == {"name", "interest_rate", "principal", "due_date"}

\* CreateLoanPaymentInput: the fields it declares, and those declared required=True
CreateLoanPaymentInputFields == {"loan_id", "payment_date"}

CreateLoanPaymentInput == {"loan_id", "payment_date"}

\* the name a field has on the graph surface (auto camel case)
GraphName(f) ==
    CASE f = "interest_rate" -> "interestRate"
      [] f = "due_date" -> "dueDate"
      [] f = "loan_id" -> "loanId"
      [] f = "payment_date" -> "paymentDate"
      [] OTHER -> f

\* the required fields an input object leaves out
MissingFields(required, input) == required \ DOMAIN input

\* the engine's error for an input that leaves required fields out: one
\* error naming each of them; the mutation's resolver is not called
MissingFieldError(missing) ==
    GraphErrors(<<[kind |-> "MissingField", fields |-> {GraphName(f) : f \in missing}]>>)

(***************************************************************************)
(* CreateLoan.mutate                                                       *)
(***************************************************************************)
\* Variant: the + 1 is left out.
NewLoanIdStale == MaxId(loans)

\* line 93: max([loan.get("id") for loan in loans], default=0) + 1
NewLoanId == MaxId(loans) + 1

\* lines 93-101: the record the mutation builds
NewLoan(input) ==
    Loan(NewLoanId, Get(input, "name"), Get(input, "interest_rate"),
         Get(input, "principal"), Get(input, "due_date"))

\* lines 102-103: append it and answer with it
CreateLoanAppend(new_loan) ==
    [loans |-> Append(loans, new_loan), response |-> GraphData(<<new_loan>>)]

CreateLoan_mutate(input) == CreateLoanAppend(NewLoan(input))

\* the createLoan field as the engine executes it
createLoan(input) ==
    LET missing == MissingFields(CreateLoanInput, input)
    IN  IF missing # {}
        THEN [loans |-> loans, response |-> MissingFieldError(missing)]
        ELSE CreateLoan_mutate(input)

(***************************************************************************)
(* CreateLoanPayment.mutate                                                *)
(***************************************************************************)
\* Variant: the + 1 is left out.
NewPaymentIdStale == MaxId(loan_payments)

\* line 118: max([payment.get("id") for payment in loan_payments], default=0) + 1
NewPaymentId == MaxId(loan_payments) + 1

\* Variant: the record is built without the existence check.
CreateLoanPaymentBuildUnchecked(input) ==
    [ok |-> TRUE,
     payment |-> Payment(MaxId(loan_payments) + 1, input.loan_id, input.payment_date)]

\* lines 114-124: the existence check, then the record the mutation builds;
\* a raised exception reaches the caller as a graph error with its message
CreateLoanPaymentBuild(input) ==
    IF ~LoanExists(input.loan_id)
    THEN [ok |-> FALSE,
          response |-> GraphErrors(<<Message(NotFoundText, <<input.loan_id>>)>>)]
    ELSE [ok |-> TRUE,
          payment |-> Payment(NewPaymentId, input.loan_id, input.payment_date)]

\* lines 125-126: append it and answer with it
CreateLoanPaymentAppend(new_payment) ==
    [loan_payments |-> Append(loan_payments, new_payment),
     response |-> GraphData(<<new_payment>>)]

CreateLoanPayment_mutate(input) ==
    LET built == CreateLoanPaymentBuild(input)
    IN  IF built.ok THEN CreateLoanPaymentAppend(built.payment)
        ELSE [loan_payments |-> loan_payments, response |-> built.response]

\* the createLoanPayment field as the engine executes it
createLoanPayment(input) ==
    LET missing == MissingFields(CreateLoanPaymentInput, input)
    IN  IF missing # {}
        THEN [loan_payments |-> loan_payments, response |-> MissingFieldError(missing)]
        ELSE CreateLoanPayment_mutate(input)

(***************************************************************************)
(* create_loan_payment: POST /loan-payments                                *)
(***************************************************************************)
\* Variant: the greatest id is read from the loans.
RestNewPaymentIdFromLoans == MaxId(loans) + 1

\* line 195: max([payment.get("id") for payment in loan_payments], default=0) + 1
RestNewPaymentId == MaxId(loan_payments) + 1

\* lines 161-201 and the outer except of 211-212: the checks in the order
\* the handler makes them, then the record it builds
RestBuild(body) ==
    IF body.kind = "malformed"      \* get_json() raises BadRequest
    THEN [ok |-> FALSE, response |-> RestError(400, Message("Request body must be JSON", << >>))]
    ELSE IF body.kind = "null"      \* data is None
    THEN [ok |-> FALSE, response |-> RestError(400, Message("Request body must be JSON", << >>))]
    ELSE IF body.kind = "number"    \* `"loan_id" not in data` raises TypeError
    THEN [ok |-> FALSE,
          response |-> RestError(500, Message("argument of type 'int' is not iterable", << >>))]
    ELSE IF "loan_id" \notin DOMAIN body.fields
    THEN [ok |-> FALSE, response |-> RestError(400, Message("loan_id is required", << >>))]
    ELSE IF "payment_date" \notin DOMAIN body.fields
    THEN [ok |-> FALSE, response |-> RestError(400, Message("payment_date is required", << >>))]
    ELSE LET coerced == IntCoerce(body.fields.loan_id)
         IN  IF coerced.exc \in {"ValueError", "TypeError"}
             THEN [ok |-> FALSE,
                   response |-> RestError(400, Message("loan_id must be an integer", << >>))]
             ELSE IF coerced.exc # "none"
             THEN [ok |-> FALSE,
                   response |-> RestError(500,
                       Message("cannot convert float infinity to integer", << >>))]
             ELSE LET loan_id == coerced.v[1]
                  IN  IF ~LoanExists(loan_id)
                      THEN [ok |-> FALSE,
                            response |-> RestError(404, Message(NotFoundText, <<loan_id>>))]
                      ELSE LET parsed == Strptime(body.fields.payment_date)
                           IN  IF parsed.exc # "none"
                               THEN [ok |-> FALSE,
                                     response |-> RestError(400,
                                         Message("payment_date must be in YYYY-MM-DD format", << >>))]
                               ELSE [ok |-> TRUE,
                                     payment |-> Payment(RestNewPaymentId, loan_id, parsed.v[1])]

\* lines 202-209: append it and answer 201 with its JSON form
RestAppend(new_payment) ==
    [loan_payments |-> Append(loan_payments, new_payment),
     response |-> Rest(201, [id |-> new_payment.id,
                             loan_id |-> new_payment.loan_id,
                             payment_date |-> IsoFormat(new_payment.payment_date)])]

create_loan_payment(body) ==
    LET built == RestBuild(body)
    IN  IF built.ok THEN RestAppend(built.payment)
        ELSE [loan_payments |-> loan_payments, response |-> built.response]

(***************************************************************************)
(* The requests explored.                                                  *)
(***************************************************************************)
LoanInputValue(f) ==
    CASE f = "name" -> "New Test Loan"
      [] f = "interest_rate" -> 400
      [] f = "principal" -> 25000
      [] OTHER -> Date(2025, 6, 1)

\* createLoan inputs: every subset of the declared fields given
LoanInputs == {[f \in S |-> LoanInputValue(f)] : S \in SUBSET CreateLoanInputFields}

GraphLoanIds == {1, 5, 999}

GraphDates == {Date(2025, 5, 5), Date(2024, 2, 29)}

\* createLoanPayment inputs: complete ones, and ones that leave a field out
PaymentInputs ==
    {[loan_id |-> n, payment_date |-> d] : n \in GraphLoanIds, d \in GraphDates}
        \cup {[loan_id |-> 1], [payment_date |-> Date(2025, 5, 5)]}

QueryIds == {1, 5, 999}

Text_2025_05_05 == Text(<<"2", "0", "2", "5", "-", "0", "5", "-", "0", "5">>)

Text_2025_5_5 == Text(<<"2", "0", "2", "5", "-", "5", "-", "5">>)

Text_2024_02_29 == Text(<<"2", "0", "2", "4", "-", "0", "2", "-", "2", "9">>)

Text_2025_02_30 == Text(<<"2", "0", "2", "5", "-", "0", "2", "-", "3", "0">>)

\* 2025-05-05 with the year in Arabic-Indic digits
Text_Arabic_2025_05_05 ==
    <<1634, 1632, 1634, 1637>> \o Text(<<"-", "0", "5", "-", "0", "5">>)

Text_05_05_2025 == Text(<<"0", "5", "/", "0", "5", "/", "2", "0", "2", "5">>)

\* the numeral 1 written with one digit more than int() reads: zeros, then 1
Text_OverlongOne ==
    [i \in 1..(default_max_str_digits + 1) |->
        IF i <= default_max_str_digits THEN Code("0") ELSE Code("1")]

RestLoanIds ==
    {JInt(1), JInt(999), JStr(Text(<<"5">>)), JStr(Text(<<" ", "5", " ">>)), JStr(Text(<<"x">>)),
     JBool(TRUE), JFloat(FALSE, 2, 7), JNull, JInfinity}

RestDates ==
    {JStr(Text_2025_05_05), JStr(Text_2025_5_5), JStr(Text_2024_02_29),
     JStr(Text_Arabic_2025_05_05), JStr(Text_2025_02_30), JStr(Text_05_05_2025),
     JInt(20250505)}

\* POST /loan-payments bodies: not JSON, null, a number, and objects with
\* both keys (every loan_id with a good date, every date with an existing
\* and with a missing loan), one key or none
RestBodies ==
    {[kind |-> "malformed"], [kind |-> "null"], [kind |-> "number"]}
        \cup {[kind |-> "object", fields |-> [loan_id |-> a, payment_date |-> b]] :
                a \in RestLoanIds, b \in {JStr(Text_2025_05_05)}}
        \cup {[kind |-> "object", fields |-> [loan_id |-> a, payment_date |-> b]] :
                a \in {JInt(1), JInt(999)}, b \in RestDates}
        \cup {[kind |-> "object", fields |-> [loan_id |-> JInt(1)]],
              [kind |-> "object", fields |-> [payment_date |-> JStr(Text_2025_05_05)]],
              [kind |-> "object", fields |-> << >>]}

\* A body whose loan_id is the overlong numeral. The handler answers it at
\* lines 179-183, before it reads either list, so it is posted as the first
\* request of a run only.
OverlongBodies ==
    IF request.op = "none"
    THEN {[kind |-> "object",
           fields |-> [loan_id |-> JStr(Text_OverlongOne),
                       payment_date |-> JStr(Text_2025_05_05)]]}
    ELSE {}

(***************************************************************************)
(* The state after construction.                                           *)
(***************************************************************************)
Threads == {1, 2}

Init ==
    /\ seed \in Seeds
    /\ loans = SeedLoans(seed)
    /\ loan_payments = SeedPayments(seed)
    /\ request = [op |-> "none"]
    /\ response = [status |-> 0]
    /\ pc = [t \in Threads |-> "idle"]
    /\ pending = [t \in Threads |-> None]
    /\ raced = [loans |-> FALSE, loan_payments |-> FALSE]

LoanCap == Len(SeedLoans(seed)) + MaxNewLoans

PaymentCap == Len(SeedPayments(seed)) + MaxNewPayments

(***************************************************************************)
(* One request handled to completion (the single-worker execution).        *)
(***************************************************************************)
\* query { loans { ... payments { ... } } }
QueryLoans ==
    /\ request' = [op |-> "loans"]
    /\ response' = GraphData(<<[i \in 1..Len(resolve_loans) |-> LoanView(resolve_loans[i])]>>)
    /\ UNCHANGED <<seed, loans, loan_payments, pc, pending, raced>>

\* query { loan(id: ...) { ... payments { ... } } }
QueryLoan(id) ==
    /\ request' = [op |-> "loan", id |-> id]
    /\ response' = LET loan == resolve_loan(id)
                   IN  GraphData(IF loan = None THEN None ELSE <<LoanView(loan[1])>>)
    /\ UNCHANGED <<seed, loans, loan_payments, pc, pending, raced>>

\* query { loanPayments { ... } }
QueryLoanPayments ==
    /\ request' = [op |-> "loanPayments"]
    /\ response' = GraphData(<<resolve_loan_payments>>)
    /\ UNCHANGED <<seed, loans, loan_payments, pc, pending, raced>>

\* mutation { createLoan(input: ...) { loan { ... } } }
CreateLoanRequest(input) ==
    LET done == createLoan(input)
    IN  /\ Len(done.loans) <= LoanCap
        /\ request' = [op |-> "createLoan", input |-> input]
        /\ loans' = done.loans
        /\ response' = done.response
        /\ UNCHANGED <<seed, loan_payments, pc, pending, raced>>

\* mutation { createLoanPayment(input: ...) { payment { ... } } }
CreateLoanPaymentRequest(input) ==
    LET done == createLoanPayment(input)
    IN  /\ Len(done.loan_payments) <= PaymentCap
        /\ request' = [op |-> "createLoanPayment", input |-> input]
        /\ loan_payments' = done.loan_payments
        /\ response' = done.response
        /\ UNCHANGED <<seed, loans, pc, pending, raced>>

\* POST /loan-payments
PostLoanPayments(body) ==
    LET done == create_loan_payment(body)
    IN  /\ Len(done.loan_payments) <= PaymentCap
        /\ request' = [op |-> "POST /loan-payments", body |-> body]
        /\ loan_payments' = done.loan_payments
        /\ response' = done.response
        /\ UNCHANGED <<seed, loans, pc, pending, raced>>

Next ==
    \/ QueryLoans
    \/ \E id \in QueryIds : QueryLoan(id)
    \/ QueryLoanPayments
    \/ \E input \in LoanInputs : CreateLoanRequest(input)
    \/ \E input \in PaymentInputs : CreateLoanPaymentRequest(input)
    \/ \E body \in RestBodies \cup OverlongBodies : PostLoanPayments(body)

Spec == Init /\ [][Next]_vars

(***************************************************************************)
(* Several worker threads (app.run serves each request on its own thread): *)
(* a handler reads the maximum id and builds its record in one step and    *)
(* appends it in a later one; nothing in app.py locks the lists between.   *)
(***************************************************************************)
ConcLoanInputs ==
    {[f \in CreateLoanInputFields |-> LoanInputValue(f)], [name |-> "New Test Loan"]}

ConcPaymentInputs ==
    {[loan_id |-> n, payment_date |-> Date(2025, 5, 5)] : n \in {1, 999}}

ConcBodies ==
    {[kind |-> "object", fields |-> [loan_id |-> a, payment_date |-> JStr(Text_2025_05_05)]] :
        a \in {JInt(1), JInt(999)}}

\* the threads, other than t, that hold a record of this kind not yet appended
Inserting(t, places) == {u \in Threads \ {t} : pc[u] \in places}

InFlight(places) == Cardinality({u \in Threads : pc[u] \in places})

PaymentPlaces == {"CreateLoanPayment:125", "create_loan_payment:202"}

\* CreateLoan.mutate up to line 101
BeginCreateLoan(t, input) ==
    /\ pc[t] = "idle"
    /\ request' = [op |-> "createLoan", input |-> input]
    /\ IF MissingFields(CreateLoanInput, input) # {}
       THEN /\ response' = createLoan(input).response
            /\ UNCHANGED <<pc, pending, raced>>
       ELSE /\ Len(loans) + InFlight({"CreateLoan:102"}) < LoanCap
            /\ pending' = [pending EXCEPT ![t] = <<NewLoan(input)>>]
            /\ pc' = [pc EXCEPT ![t] = "CreateLoan:102"]
            /\ raced' = [raced EXCEPT !.loans = @ \/ Inserting(t, {"CreateLoan:102"}) # {}]
            /\ UNCHANGED response
    /\ UNCHANGED <<seed, loans, loan_payments>>

\* CreateLoan.mutate lines 102-103
EndCreateLoan(t) ==
    /\ pc[t] = "CreateLoan:102"
    /\ LET done == CreateLoanAppend(pending[t][1])
       IN  /\ loans' = done.loans
           /\ response' = done.response
    /\ pc' = [pc EXCEPT ![t] = "idle"]
    /\ pending' = [pending EXCEPT ![t] = None]
    /\ UNCHANGED <<seed, loan_payments, request, raced>>

\* CreateLoanPayment.mutate up to line 124
BeginCreateLoanPayment(t, input) ==
    /\ pc[t] = "idle"
    /\ request' = [op |-> "createLoanPayment", input |-> input]
    /\ LET built == CreateLoanPaymentBuild(input)
       IN  IF ~built.ok
           THEN /\ response' = built.response
                /\ UNCHANGED <<pc, pending, raced>>
           ELSE /\ Len(loan_payments) + InFlight(PaymentPlaces) < PaymentCap
                /\ pending' = [pending EXCEPT ![t] = <<built.payment>>]
                /\ pc' = [pc EXCEPT ![t] = "CreateLoanPayment:125"]
                /\ raced' = [raced EXCEPT
                                !.loan_payments = @ \/ Inserting(t, PaymentPlaces) # {}]
                /\ UNCHANGED response
    /\ UNCHANGED <<seed, loans, loan_payments>>

\* CreateLoanPayment.mutate lines 125-126
EndCreateLoanPayment(t) ==
    /\ pc[t] = "CreateLoanPayment:125"
    /\ LET done == CreateLoanPaymentAppend(pending[t][1])
       IN  /\ loan_payments' = done.loan_payments
           /\ response' = done.response
    /\ pc' = [pc EXCEPT ![t] = "idle"]
    /\ pending' = [pending EXCEPT ![t] = None]
    /\ UNCHANGED <<seed, loans, request, raced>>

\* create_loan_payment up to line 201
BeginPostLoanPayments(t, body) ==
    /\ pc[t] = "idle"
    /\ request' = [op |-> "POST /loan-payments", body |-> body]
    /\ LET built == RestBuild(body)
       IN  IF ~built.ok
           THEN /\ response' = built.response
                /\ UNCHANGED <<pc, pending, raced>>
           ELSE /\ Len(loan_payments) + InFlight(PaymentPlaces) < PaymentCap
                /\ pending' = [pending EXCEPT ![t] = <<built.payment>>]
                /\ pc' = [pc EXCEPT ![t] = "create_loan_payment:202"]
                /\ raced' = [raced EXCEPT
                                !.loan_payments = @ \/ Inserting(t, PaymentPlaces) # {}]
                /\ UNCHANGED response
    /\ UNCHANGED <<seed, loans, loan_payments>>

\* create_loan_payment lines 202-209
EndPostLoanPayments(t) ==
    /\ pc[t] = "create_loan_payment:202"
    /\ LET done == RestAppend(pending[t][1])
       IN  /\ loan_payments' = done.loan_payments
           /\ response' = done.response
    /\ pc' = [pc EXCEPT ![t] = "idle"]
    /\ pending' = [pending EXCEPT ![t] = None]
    /\ UNCHANGED <<seed, loans, request, raced>>

NextThreaded ==
    \/ \E t \in Threads, input \in ConcLoanInputs : BeginCreateLoan(t, input)
    \/ \E t \in Threads : EndCreateLoan(t)
    \/ \E t \in Threads, input \in ConcPaymentInputs : BeginCreateLoanPayment(t, input)
    \/ \E t \in Threads : EndCreateLoanPayment(t)
    \/ \E t \in Threads, body \in ConcBodies \cup OverlongBodies : BeginPostLoanPayments(t, body)
    \/ \E t \in Threads : EndPostLoanPayments(t)

SpecThreaded == Init /\ [][NextThreaded]_vars

(***************************************************************************)
(* Vocabulary of the properties, stated without the handlers' helpers.     *)
(***************************************************************************)
IdsOf(recs) == {recs[i].id : i \in 1..Len(recs)}

\* the greatest id of a collection, 0 when it is empty
GreatestId(recs) ==
    IF recs = << >> THEN 0
    ELSE CHOOSE m \in IdsOf(recs) : \A x \in IdsOf(recs) : x <= m

StrictlyIncreasingIds(recs) ==
    \A i, j \in 1..Len(recs) : i < j => recs[i].id < recs[j].id

UniqueIds(recs) ==
    \A i, j \in 1..Len(recs) : i # j => recs[i].id # recs[j].id

NoLoanHasId(id) == \A i \in 1..Len(loans) : loans[i].id # id

\* one record was appended, and its id is one more than the greatest before
AppendedWithNextId(before, after) ==
    /\ Len(after) = Len(before) + 1
    /\ SubSeq(after, 1, Len(before)) = before
    /\ after[Len(after)].id = GreatestId(before) + 1

\* C1: every step that changes the loans appends exactly one loan whose id
\* is one more than the greatest loan id before it (1 on an empty list), so
\* loan ids are strictly increasing in creation order and never shared.
LoanIdsAreNextMax ==
    /\ [](StrictlyIncreasingIds(loans) /\ UniqueIds(loans))
    /\ [][loans' # loans => AppendedWithNextId(loans, loans')]_vars

\* a loan was created on the cleared store and got id 1, and a second got id 2
LoanIdsAreNextMaxWitness ==
    /\ seed = "cleared"
    /\ request.op = "createLoan"
    /\ response.errors = << >>
    /\ Len(loans) = 2
    /\ loans[1].id = 1
    /\ loans[2].id = 2

\* C2: every step that changes the payments, on the graph surface or the
\* REST one, appends exactly one payment whose id is one more than the
\* greatest payment id before it, whatever loans exist; payment ids are
\* strictly increasing and never shared.
PaymentIdsAreNextMax ==
    /\ [](StrictlyIncreasingIds(loan_payments) /\ UniqueIds(loan_payments))
    /\ [][loan_payments' # loan_payments
            => AppendedWithNextId(loan_payments, loan_payments') /\ loans' = loans]_vars

\* the REST surface created a payment after another creation, with loans
\* created in between, so that loans and payments differ in number and in
\* greatest id
PaymentIdsAreNextMaxWitness ==
    /\ request.op = "POST /loan-payments"
    /\ response.status = 201
    /\ Len(loan_payments) = Len(SeedPayments(seed)) + 2
    /\ Len(loans) > Len(SeedLoans(seed))
    /\ response.body.id = Len(loan_payments)
    /\ GreatestId(loans) # GreatestId(loan_payments)

\* the request asks, on the graph surface, for a payment of loan id
GraphPaymentFor(req, id) ==
    /\ req.op = "createLoanPayment"
    /\ DOMAIN req.input = {"loan_id", "payment_date"}
    /\ req.input.loan_id = id

\* the request asks, on the REST surface, for a payment of loan id: a JSON
\* object with both keys whose loan_id int() turns into id
RestPaymentFor(req, id) ==
    /\ req.op = "POST /loan-payments"
    /\ req.body.kind = "object"
    /\ DOMAIN req.body.fields = {"loan_id", "payment_date"}
    /\ IntCoerce(req.body.fields.loan_id) = Ok(id)

RequestedLoanIds == {1, 2, 5, 999}

\* C3: on either surface a payment request naming a loan id that no loan has
\* is answered LoanNotFound (graph: one error whose message is the not-found
\* text with that id; REST: status 404 with that error) and changes neither
\* collection.
MissingLoanRejected ==
    [][\A id \in RequestedLoanIds :
          NoLoanHasId(id) =>
            /\ GraphPaymentFor(request', id) =>
                  /\ response'.data = None
                  /\ response'.errors = <<Message(NotFoundText, <<id>>)>>
                  /\ loan_payments' = loan_payments
                  /\ loans' = loans
            /\ RestPaymentFor(request', id) =>
                  /\ response'.status = 404
                  /\ response'.body = [error |-> Message(NotFoundText, <<id>>)]
                  /\ loan_payments' = loan_payments
                  /\ loans' = loans]_vars

\* the graph surface has just refused a payment for loan 999, after payments
\* were created
MissingLoanRejectedWitness ==
    /\ GraphPaymentFor(request, 999)
    /\ NoLoanHasId(999)
    /\ response.errors = <<Message(NotFoundText, <<999>>)>>
    /\ Len(loan_payments) > Len(SeedPayments(seed))

\* the fields of a createLoan input that are left out
Omitted(input) == {"name", "interest_rate", "principal", "due_date"} \ DOMAIN input

\* C4: a createLoan that leaves out any non-empty set of the four fields is
\* answered with one MissingField error naming each field left out, and
\* changes neither collection (so the next id is still the greatest + 1).
MissingFieldsRejected ==
    [][(request'.op = "createLoan" /\ Omitted(request'.input) # {}) =>
          /\ response'.data = None
          /\ response'.errors =
                <<[kind |-> "MissingField",
                   fields |-> {GraphName(f) : f \in Omitted(request'.input)}]>>
          /\ Len(loans') = Len(loans)
          /\ loans' = loans
          /\ loan_payments' = loan_payments
          /\ MaxId(loans') + 1 = GreatestId(loans) + 1]_vars

\* the test's request: interestRate and dueDate left out, both named
MissingFieldsRejectedWitness ==
    /\ request.op = "createLoan"
    /\ Omitted(request.input) = {"interest_rate", "due_date"}
    /\ response.errors = <<[kind |-> "MissingField", fields |-> {"interestRate", "dueDate"}]>>
    /\ Len(loans) > Len(SeedLoans(seed))

\* r is exactly the payments of loan id, in the order of the collection:
\* each element is a stored payment of that loan, there are as many as the
\* collection holds for it, and they stand in the collection's order
IsPaymentsOf(r, id) ==
    /\ \A k \in 1..Len(r) :
          /\ r[k].loan_id = id
          /\ \E j \in 1..Len(loan_payments) : loan_payments[j] = r[k]
    /\ Len(r) = Cardinality({j \in 1..Len(loan_payments) : loan_payments[j].loan_id = id})
    /\ \A k1, k2 \in 1..Len(r) :
          k1 < k2 => \E j1, j2 \in 1..Len(loan_payments) :
                        /\ j1 < j2
                        /\ loan_payments[j1] = r[k1]
                        /\ loan_payments[j2] = r[k2]

\* the loans, each with its payments field, that the last read answered
ViewsAnswered ==
    IF request.op = "loans" THEN response.data[1]
    ELSE IF request.op = "loan" /\ response.data # None THEN response.data
    ELSE << >>

\* C5: in every state the payments field of every loan is exactly the
\* payments whose loan_id is the loan's id, in insertion order (empty when
\* there are none), and what a read has just answered is that field computed
\* from the store as it now is, payments created since earlier reads included.
PaymentsFieldIsExact ==
    /\ \A i \in 1..Len(loans) : IsPaymentsOf(resolve_payments(loans[i]), loans[i].id)
    /\ \A v \in 1..Len(ViewsAnswered) :
          /\ \E i \in 1..Len(loans) : loans[i] = ViewsAnswered[v].loan
          /\ IsPaymentsOf(ViewsAnswered[v].payments, ViewsAnswered[v].loan.id)

\* a read of all loans answered a loan with two payments, one of them created
\* after construction, and a loan with none
PaymentsFieldIsExactWitness ==
    /\ request.op = "loans"
    /\ \E v \in 1..Len(ViewsAnswered) : ViewsAnswered[v].payments = << >>
    /\ \E v \in 1..Len(ViewsAnswered) :
          /\ Len(ViewsAnswered[v].payments) >= 2
          /\ \E k \in 1..Len(ViewsAnswered[v].payments) :
                ViewsAnswered[v].payments[k].id > Len(SeedPayments(seed))

\* the same calendar dates as the REST surface reads them (text) and as the
\* graph surface hands them to its resolver (date)
SameDates ==
    {<<Text_2025_05_05, Date(2025, 5, 5)>>, <<Text_2024_02_29, Date(2024, 2, 29)>>}

RestBody(id, text) ==
    [kind |-> "object", fields |-> [loan_id |-> JInt(id), payment_date |-> JStr(text)]]

\* C6: in every store state, for every integer loan id and calendar date, the
\* REST handler and the graph mutation have the same outcome: both refuse
\* with LoanNotFound and leave the payments as they are when no loan has the
\* id, and otherwise both append the same single payment.
SurfacesAgree ==
    \A id \in RequestedLoanIds, same \in SameDates :
        LET rest == create_loan_payment(RestBody(id, same[1]))
            graph == CreateLoanPayment_mutate([loan_id |-> id, payment_date |-> same[2]])
        IN  /\ rest.loan_payments = graph.loan_payments
            /\ IF NoLoanHasId(id)
               THEN /\ rest.response.status = 404
                    /\ rest.response.body.error = Message(NotFoundText, <<id>>)
                    /\ graph.response.errors = <<Message(NotFoundText, <<id>>)>>
                    /\ rest.loan_payments = loan_payments
               ELSE /\ rest.response.status = 201
                    /\ graph.response.errors = << >>
                    /\ rest.loan_payments =
                          Append(loan_payments,
                                 Payment(GreatestId(loan_payments) + 1, id, same[2]))
                    /\ graph.response.data[1].id = rest.response.body.id

\* a store grown on both sides, where loan 5 exists and loan 999 does not,
\* reached by a REST creation
SurfacesAgreeWitness ==
    /\ request.op = "POST /loan-payments"
    /\ response.status = 201
    /\ ~NoLoanHasId(5)
    /\ NoLoanHasId(999)
    /\ Len(loan_payments) > Len(SeedPayments(seed))

\* the number that ASCII digits write; a negative one when any of the
\* characters is not an ASCII digit
RECURSIVE AsciiNumber(_)
AsciiNumber(s) ==
    IF s = << >> THEN 0
    ELSE LET front == AsciiNumber(SubSeq(s, 1, Len(s) - 1))
             last == s[Len(s)]
         IN  IF front < 0 \/ last \notin Code("0")..Code("9") THEN 0 - 1
             ELSE 10 * front + (last - Code("0"))

\* a JSON value that is a date written exactly YYYY-MM-DD: a string of four,
\* two and two ASCII digits with "-" between them that names a day of the
\* calendar
ExactIsoDate(j) ==
    /\ j.t = "str"
    /\ Len(j.str) = 10
    /\ j.str[5] = Code("-")
    /\ j.str[8] = Code("-")
    /\ LET y == AsciiNumber(SubSeq(j.str, 1, 4))
           m == AsciiNumber(SubSeq(j.str, 6, 7))
           d == AsciiNumber(SubSeq(j.str, 9, 10))
       IN  /\ y >= 1
           /\ m \in 1..12
           /\ d \in 1..DaysInMonth(y, m)

\* a REST request, well formed, with both fields, whose loan_id int()
\* accepts and whose payment_date is not a date written exactly YYYY-MM-DD
BadDateRequest(req) ==
    /\ req.op = "POST /loan-payments"
    /\ req.body.kind = "object"
    /\ DOMAIN req.body.fields = {"loan_id", "payment_date"}
    /\ IntCoerce(req.body.fields.loan_id).exc = "none"
    /\ ~ExactIsoDate(req.body.fields.payment_date)

\* C7: a POST /loan-payments request whose payment_date is not exactly
\* YYYY-MM-DD stores no payment and is answered with status 400, and with
\* status 404 when no loan has the requested id (the claim's last clause,
\* read as the answer for a missing loan).
BadDateRejected ==
    [][BadDateRequest(request') =>
          /\ loan_payments' = loan_payments
          /\ LET id == IntCoerce(request'.body.fields.loan_id).v[1]
             IN  IF NoLoanHasId(id) THEN response'.status = 404
                 ELSE response'.status = 400]_vars

\* a payment_date that is not exactly YYYY-MM-DD (an unpadded month and day,
\* or a year in Arabic-Indic digits) has just been answered 201 and stored
BadDateStored ==
    /\ BadDateRequest(request)
    /\ request.body.fields.payment_date \in {JStr(Text_2025_5_5), JStr(Text_Arabic_2025_05_05)}
    /\ response.status = 201
    /\ loan_payments # << >>
    /\ loan_payments[Len(loan_payments)].payment_date = Date(2025, 5, 5)
    /\ response.body.payment_date = Text_2025_05_05

\* C8: a loan(id) query changes neither collection and is answered without
\* error: by the loan whose id is the argument when there is one, by null
\* when there is none.
LoanByIdOrNull ==
    [][request'.op = "loan" =>
          /\ loans' = loans
          /\ loan_payments' = loan_payments
          /\ response'.status = 200
          /\ response'.errors = << >>
          /\ IF NoLoanHasId(request'.id)
             THEN response'.data = None
             ELSE /\ Len(response'.data) = 1
                  /\ response'.data[1].loan.id = request'.id
                  /\ \E i \in 1..Len(loans) : loans[i] = response'.data[1].loan]_vars

\* loan 999 was asked for in a store that has loans, and null was answered
LoanByIdOrNullWitness ==
    /\ request.op = "loan"
    /\ request.id = 999
    /\ Len(loans) > Len(SeedLoans(seed))
    /\ loans # << >>
    /\ response.data = None
    /\ response.errors = << >>

\* C9: every payment's loan_id is the id of a loan of the store.
ReferentialIntegrity ==
    \A j \in 1..Len(loan_payments) : ~NoLoanHasId(loan_payments[j].loan_id)

\* both surfaces have created payments, the last one for a loan created
\* after construction, and a request for a missing loan has just failed
ReferentialIntegrityWitness ==
    /\ Len(loan_payments) = Len(SeedPayments(seed)) + 2
    /\ loan_payments[Len(loan_payments)].loan_id = Len(SeedLoans(seed)) + 1
    /\ RestPaymentFor(request, 999)
    /\ response.status = 404

\* C10: the read of the greatest id and the append are separate steps: as
\* long as no insert has read while another insert into the same collection
\* had read and not yet appended, ids stay unique; two overlapping inserts
\* give two records the same id (the witness).
IdsUniqueUnlessRaced ==
    /\ ~raced.loans => UniqueIds(loans)
    /\ ~raced.loan_payments => UniqueIds(loan_payments)

\* two loans with the same id, and two payments with the same id
DuplicateIdsReached ==
    /\ raced.loans
    /\ \E i, j \in 1..Len(loans) : i < j /\ loans[i].id = loans[j].id
    /\ \E i, j \in 1..Len(loan_payments) : i < j /\ loan_payments[i].id = loan_payments[j].id
====
